---- MODULE Spec2Model ----
(***************************************************************************)
(* CPPNotes (src/main.cpp): a console notes program.  A prompt loop reads  *)
(* command lines; new/app/ow open an editor session that reads lines until *)
(* "!quit" and then saves the note to savedNotes/<title>.cppn.             *)
(*                                                                         *)
(* A std::string is a sequence of one-character strings.  Positions are    *)
(* 0-based as in C++; string::npos is -1, so that npos + k has the value   *)
(* size_t arithmetic gives it (k - 1, by wrap-around modulo 2^64).         *)
(***************************************************************************)
EXTENDS Integers, Sequences, FiniteSets, TLC

VARIABLES
    files,        \* savedNotes/: file name |-> file content
    dirExists,    \* whether the directory savedNotes exists
    pc,           \* "prompt" | "editor" | "exited" | "aborted"
    cmd,          \* promptHandler: the last line read at the prompt
    line,         \* openNote: the last line read by the editor loop
    note,         \* the Note being edited (NoNote outside a session)
    userContent,  \* openNote: local userContent
    newContent,   \* openNote: local newContent
    session,      \* which command opened the current/last session
    typed,        \* the content lines the current/last session has read
    out,          \* what the last handler printed (sequence of messages)
    createdTs,    \* title |-> timestamp createNote gave it (history)
    deleted       \* titles deleted and not passed to createNote since (history)

vars == <<files, dirExists, pc, cmd, line, note, userContent, newContent,
          session, typed, out, createdTs, deleted>>

-----------------------------------------------------------------------------
(* Bounds of the model *)

\* a note body holds at most this many lines
MaxBodyLines == 2

-----------------------------------------------------------------------------
(* Constants of the program *)

noteExt == <<".", "c", "p", "p", "n">>
headSep == <<" ", "|", " ">>
invalidChars == <<"<", ">", ":", "\"", "/", "\\", "|", "?", "*">>
maxLength == 255
Quit == <<"!", "q", "u", "i", "t">>
NL == "\n"
Npos == 0 - 1

\* the characters std::isspace accepts in the "C" locale (the vertical tab,
\* which no TLA+ string can hold, is left out)
WhiteSpace == {" ", "\t", "\n", "\r", "\f"}

-----------------------------------------------------------------------------
(* std::string operations *)

Range(s) == {s[i] : i \in 1..Len(s)}

\* s.find(pat): the first position where pat occurs, or npos
Find(s, pat) ==
    LET hits == {p \in 0..(Len(s) - Len(pat)) :
                    \A k \in 1..Len(pat) : s[p + k] = pat[k]}
    IN  IF hits = {} THEN Npos
        ELSE CHOOSE p \in hits : \A q \in hits : p <= q

\* s.substr(pos) throws std::out_of_range when pos > s.size()
SubstrThrows(s, pos) == pos > Len(s)

\* s.substr(pos), for pos <= s.size()
Substr(s, pos) == SubSeq(s, pos + 1, Len(s))

\* s.compare(0, n, pat) == 0: the first min(n, size) characters of s are pat
ComparePrefix(s, n, pat) ==
    SubSeq(s, 1, IF n < Len(s) THEN n ELSE Len(s)) = pat

\* the lines std::getline reads from a stream over s, one after the other
RECURSIVE GetLines(_)
GetLines(s) ==
    IF s = <<>> THEN <<>>
    ELSE LET p == Find(s, <<NL>>)
         IN  IF p = Npos THEN <<s>>
             ELSE <<SubSeq(s, 1, p)>> \o GetLines(Substr(s, p + 1))

\* line1 + "\n" + line2 + "\n" + ...
RECURSIVE JoinLines(_)
JoinLines(ls) ==
    IF ls = <<>> THEN <<>>
    ELSE Head(ls) \o <<NL>> \o JoinLines(Tail(ls))

-----------------------------------------------------------------------------
(* The helpers of main.cpp *)

\* put_time(&local_tm, "%Y-%m-%d [%H:%M]") for minute t of the modelled day
TwoDigits(n) ==
    LET d == <<"0", "1", "2", "3", "4", "5", "6", "7", "8", "9">>
    IN  <<d[(n \div 10) + 1], d[(n % 10) + 1]>>

getCurrentTime(t) ==
    <<"2", "0", "2", "6", "-", "0", "1", "-", "0", "1", " ", "[">>
        \o TwoDigits(t \div 60) \o <<":">> \o TwoDigits(t % 60) \o <<"]">>

\* the minutes of the day the system clock shows when getCurrentTime is
\* called (a system clock is not monotonic): 00:09 and 01:10
Times == {9, 70}

countWords(text) ==
    Cardinality({i \in 1..Len(text) :
                    /\ text[i] \notin WhiteSpace
                    /\ (i = 1 \/ text[i - 1] \in WhiteSpace)})

extractArg(text) ==
    IF Find(text, <<" ">>) # Npos
    THEN Substr(text, Find(text, <<" ">>) + 1)
    ELSE <<>>

containsCharsFrom(text, chars) ==
    \E i \in 1..Len(text) : Find(chars, <<text[i]>>) # Npos

\* a length test that lets a title of exactly 255 characters through
validateInputOffByOne(input) ==
    IF containsCharsFrom(input, invalidChars) THEN FALSE
    ELSE IF Len(input) > 255 THEN FALSE
    ELSE TRUE

validateInput(input) ==
    IF containsCharsFrom(input, invalidChars) THEN FALSE
    ELSE IF Len(input) >= 255 THEN FALSE
    ELSE TRUE

\* saveDir / (title + noteExt): the file's name inside savedNotes
FilePath(title) == title \o noteExt

\* a stem cut at the first dot of the name
StemAtFirstDot(fname) ==
    LET dots == {i \in 1..Len(fname) : fname[i] = "."}
        first == CHOOSE i \in dots : \A j \in dots : i <= j
    IN  IF dots = {} THEN fname ELSE SubSeq(fname, 1, first - 1)

\* path.stem() of a directory entry: the file name without its last
\* extension; "." and ".." and a name whose only dot leads it have none
Stem(fname) ==
    LET dots == {i \in 1..Len(fname) : fname[i] = "."}
        last == CHOOSE i \in dots : \A j \in dots : j <= i
    IN  IF fname = <<".">> \/ fname = <<".", ".">> THEN fname
        ELSE IF dots = {} THEN fname
        ELSE IF last = 1 THEN fname
        ELSE SubSeq(fname, 1, last - 1)

-----------------------------------------------------------------------------
(* Messages printed to the terminal *)

Msg(k, a) == [kind |-> k, arg |-> a]

\* what openNote prints before it reads: clear screen, title line,
\* instruction line, the existing user content
EditorScreen(n, uc) ==
    << Msg("Clear", <<>>),
       Msg("Title", n.name \o headSep \o n.timestamp),
       Msg("Instructions", <<>>),
       Msg("Text", uc) >>

-----------------------------------------------------------------------------
(* The state *)

NoNote == [name |-> <<>>, timestamp |-> <<>>, content |-> <<>>]
NoFiles == [f \in {} |-> <<>>]

\* main(): the save directory exists (created if absent) before the prompt
Init ==
    /\ files = NoFiles
    /\ dirExists = TRUE
    /\ pc = "prompt"
    /\ cmd = <<>>
    /\ line = <<>>
    /\ note = NoNote
    /\ userContent = <<>>
    /\ newContent = <<>>
    /\ session = "none"
    /\ typed = <<>>
    /\ out = <<>>
    /\ createdTs = [t \in {} |-> <<>>]
    /\ deleted = {}

-----------------------------------------------------------------------------
(* The lines the user types *)

Sp == <<" ">>
WExit == <<"e", "x", "i", "t">>
WHelp == <<"h", "e", "l", "p">>
WCls == <<"c", "l", "s">>
WList == <<"l", "i", "s", "t">>
WNew == <<"n", "e", "w">>
WApp == <<"a", "p", "p">>
WOw == <<"o", "w">>
WDel == <<"d", "e", "l">>

TitleA == <<"a">>
TitleAB == <<"a", ".", "b">>
LongTitle(n) == [i \in 1..n |-> "x"]

\* the titles some command line below passes validation with
Titles == {TitleA, TitleAB, LongTitle(maxLength - 1)}

CmdLines ==
    {WExit, WHelp, WCls, WList}
    \cup {v \o Sp \o t : v \in {WNew, WApp, WOw, WDel}, t \in {TitleA, TitleAB}}
    \cup {WDel \o Sp \o <<"a", c>> : c \in Range(invalidChars)}
    \cup {WDel \o Sp \o LongTitle(maxLength - 1),
          WNew \o Sp \o LongTitle(maxLength),
          WApp \o Sp \o <<"a", "/", "b">>}
    \cup {WNew, WNew \o <<" ", "a", " ", "b">>,
          WNew \o <<"\t", "a">>, WOw \o <<"l">>,
          <<>>, <<"x", " ", "a">>, <<"x", " ", "a", "?">>}

\* what the user types inside an editor session, other than "!quit"
EditorLines == {<<>>, WExit}

-----------------------------------------------------------------------------
(* File system *)

\* an existence test on the path without the extension
FileExistsNoExt(title) == dirExists /\ title \in DOMAIN files

\* fs::exists(saveDir / (title + noteExt)), ifstream::is_open
FileExists(title) == dirExists /\ FilePath(title) \in DOMAIN files

\* the file `path` written with `content`
WriteFile(path, content) ==
    [f \in DOMAIN files \cup {path} |->
        IF f = path THEN content ELSE files[f]]

\* a removal that removes nothing
RemoveNothing(path) == files

\* the file `path` removed
RemoveFile(path) ==
    [f \in DOMAIN files \ {path} |-> files[f]]

\* the orders in which a directory_iterator can enumerate the set S
Orders(S) ==
    {o \in [1..Cardinality(S) -> S] :
        \A i, j \in 1..Cardinality(S) : o[i] = o[j] => i = j}

-----------------------------------------------------------------------------
(* promptHandler: the branch of the if-chain a command line takes *)

Branch(c) ==
    LET arg == extractArg(c)
    IN  IF c = WExit THEN "exit"
        ELSE IF c = WHelp THEN "help"
        ELSE IF c = WCls THEN "cls"
        ELSE IF c = WList THEN "list"
        ELSE IF countWords(c) = 2 /\ ~validateInput(arg) THEN "badname"
        ELSE IF ComparePrefix(c, 4, WDel \o Sp) /\ countWords(c) = 2 THEN "del"
        ELSE IF ComparePrefix(c, 4, WNew \o Sp) /\ countWords(c) = 2 THEN "new"
        ELSE IF ComparePrefix(c, 4, WApp \o Sp) /\ countWords(c) = 2 THEN "app"
        ELSE IF ComparePrefix(c, 3, WOw \o Sp) /\ countWords(c) = 2 THEN "ow"
        ELSE IF \/ ComparePrefix(c, 3, WDel)
                \/ ComparePrefix(c, 3, WNew)
                \/ ComparePrefix(c, 3, WApp)
                \/ ComparePrefix(c, 2, WOw) THEN "missing"
        ELSE "unknown"

\* the branch and the argument (extractArg, main.cpp line 287) of every
\* line the user can type, tabulated
BranchOf == [c \in CmdLines |-> Branch(c)]
ArgOf == [c \in CmdLines |-> extractArg(c)]
WordsOf == [c \in CmdLines |-> countWords(c)]

\* a command that is done when its handler returns: the loop prompts again
Returns(c, o) ==
    /\ cmd' = c
    /\ out' = o
    /\ pc' = "prompt"
    /\ session' = "none"
    /\ typed' = <<>>
    /\ UNCHANGED <<line, note, userContent, newContent>>

\* openNote up to its first getline: the note n is on screen
openNoteBegin(c, s, n, before) ==
    LET startUserContent == Find(n.content, <<NL, NL>>)
    IN  /\ cmd' = c
        /\ session' = s
        /\ typed' = <<>>
        /\ UNCHANGED <<files, dirExists, line>>
        /\ IF SubstrThrows(n.content, startUserContent + 2)
           THEN /\ pc' = "aborted"
                /\ out' = before
                /\ UNCHANGED <<note, userContent, newContent>>
           ELSE /\ pc' = "editor"
                /\ note' = n
                /\ userContent' = Substr(n.content, startUserContent + 2)
                /\ newContent' = <<>>
                /\ out' = before \o
                       EditorScreen(n, Substr(n.content, startUserContent + 2))

-----------------------------------------------------------------------------
(* The commands *)

CmdExit(c) ==
    /\ pc = "prompt" /\ BranchOf[c] = "exit"
    /\ cmd' = c
    /\ pc' = "exited"
    /\ out' = <<>>
    /\ session' = "none"
    /\ typed' = <<>>
    /\ UNCHANGED <<files, dirExists, line, note, userContent, newContent,
                   createdTs, deleted>>

CmdHelp(c) ==
    /\ pc = "prompt" /\ BranchOf[c] = "help"
    /\ Returns(c, <<Msg("Help", <<>>)>>)
    /\ UNCHANGED <<files, dirExists, createdTs, deleted>>

CmdCls(c) ==
    /\ pc = "prompt" /\ BranchOf[c] = "cls"
    /\ Returns(c, <<Msg("Clear", <<>>)>>)
    /\ UNCHANGED <<files, dirExists, createdTs, deleted>>

\* listNotes: the directory_iterator is constructed before the directory
\* is tested, and its constructor throws when the directory is missing;
\* nothing catches the exception
listNotes(c) ==
    IF ~dirExists
    THEN /\ cmd' = c
         /\ pc' = "aborted"
         /\ out' = <<>>
         /\ session' = "none"
         /\ typed' = <<>>
         /\ UNCHANGED <<line, note, userContent, newContent>>
    ELSE IF DOMAIN files = {}
    THEN Returns(c, <<Msg("NoFilesFound", <<>>)>>)
    ELSE \E o \in Orders(DOMAIN files) :
            Returns(c, [i \in 1..Len(o) |-> Msg("Entry", Stem(o[i]))])

CmdList(c) ==
    /\ pc = "prompt" /\ BranchOf[c] = "list"
    /\ listNotes(c)
    /\ UNCHANGED <<files, dirExists, createdTs, deleted>>

CmdInvalidFilename(c) ==
    /\ pc = "prompt" /\ BranchOf[c] = "badname"
    /\ Returns(c, <<Msg("InvalidFilename", ArgOf[c])>>)
    /\ UNCHANGED <<files, dirExists, createdTs, deleted>>

deleteNote(c, title) ==
    IF FileExists(title)
    THEN /\ files' = RemoveFile(FilePath(title))
         /\ Returns(c, <<Msg("Deleted", title)>>)
         /\ deleted' = deleted \cup {title}
         /\ UNCHANGED <<dirExists, createdTs>>
    ELSE /\ Returns(c, <<Msg("DeleteFailed", title)>>)
         /\ UNCHANGED <<files, dirExists, createdTs, deleted>>

CmdDel(c) ==
    /\ pc = "prompt" /\ BranchOf[c] = "del"
    /\ deleteNote(c, ArgOf[c])

createNote(c, title) ==
    IF FileExists(title)
    THEN /\ Returns(c, <<Msg("AlreadyExists", title)>>)
         /\ UNCHANGED <<files, dirExists, createdTs, deleted>>
    ELSE \E t \in Times :
            LET ts == getCurrentTime(t)
                n  == [name |-> title, timestamp |-> ts,
                       content |-> title \o headSep \o ts \o <<NL, NL>>]
            IN  /\ openNoteBegin(c, "new", n, <<>>)
                /\ createdTs' = [x \in DOMAIN createdTs \cup {title} |->
                                    IF x = title THEN ts ELSE createdTs[x]]
                /\ deleted' = deleted \ {title}

CmdNew(c) ==
    /\ pc = "prompt" /\ BranchOf[c] = "new"
    /\ createNote(c, ArgOf[c])

\* a loadNote that forgets the length of the separator
ParseTimestampNoSepLength(head) ==
    Substr(head, Find(head, headSep) + 1)

\* loadNote: the timestamp is what follows the separator in the head line
ParseTimestamp(head) ==
    Substr(head, Find(head, headSep) + Len(headSep))

\* a loadNote that reads one more line before its loop
LoadedContentSkipsLine(rest, appendMode) ==
    IF appendMode
    THEN IF rest = <<>> THEN <<>> ELSE JoinLines(Tail(rest))
    ELSE <<NL>>

\* a loadNote that keeps the stored body in both modes
LoadedContentIgnoresMode(rest, appendMode) ==
    JoinLines(rest)

\* loadNote: the stored lines after the head are kept when appending and
\* replaced by one newline when overwriting
LoadedContent(rest, appendMode) ==
    IF appendMode THEN JoinLines(rest) ELSE <<NL>>

loadNote(c, title, appendMode) ==
    IF FileExists(title)
    THEN LET lines == GetLines(files[FilePath(title)])
             head == IF lines = <<>> THEN <<>> ELSE Head(lines)
             rest == IF lines = <<>> THEN <<>> ELSE Tail(lines)
         IN  IF SubstrThrows(head, Find(head, headSep) + Len(headSep))
             THEN /\ cmd' = c
                  /\ pc' = "aborted"
                  /\ out' = <<Msg("Clear", <<>>)>>
                  /\ session' = "none"
                  /\ typed' = <<>>
                  /\ UNCHANGED <<files, dirExists, line, note, userContent,
                                 newContent, createdTs, deleted>>
             ELSE /\ openNoteBegin(c, IF appendMode THEN "app" ELSE "ow",
                        [name |-> title,
                         timestamp |-> ParseTimestamp(head),
                         content |-> head \o <<NL>>
                                        \o LoadedContent(rest, appendMode)],
                        <<Msg("Clear", <<>>)>>)
                  /\ UNCHANGED <<createdTs, deleted>>
    ELSE /\ Returns(c, <<Msg("NotFound", title)>>)
         /\ UNCHANGED <<files, dirExists, createdTs, deleted>>

CmdApp(c) ==
    /\ pc = "prompt" /\ BranchOf[c] = "app"
    /\ loadNote(c, ArgOf[c], TRUE)

CmdOw(c) ==
    /\ pc = "prompt" /\ BranchOf[c] = "ow"
    /\ loadNote(c, ArgOf[c], FALSE)

CmdMissingArg(c) ==
    /\ pc = "prompt" /\ BranchOf[c] = "missing"
    /\ Returns(c, <<Msg("MissingArgument", <<>>)>>)
    /\ UNCHANGED <<files, dirExists, createdTs, deleted>>

CmdInvalid(c) ==
    /\ pc = "prompt" /\ BranchOf[c] = "unknown"
    /\ Returns(c, <<Msg("InvalidCommand", c)>>)
    /\ UNCHANGED <<files, dirExists, createdTs, deleted>>

-----------------------------------------------------------------------------
(* The editor session: the loop of openNote and what follows it *)

\* number of lines of the body the session will save
BodyLines == Len(GetLines(userContent)) + Len(typed)

\* an editor loop that takes a typed `exit` for the exit command
EditorLineObeysExit(l) ==
    /\ pc = "editor"
    /\ l # Quit
    /\ BodyLines < MaxBodyLines
    /\ line' = l
    /\ newContent' = newContent \o l \o <<NL>>
    /\ typed' = Append(typed, l)
    /\ out' = <<>>
    /\ pc' = IF l = WExit THEN "exited" ELSE pc
    /\ UNCHANGED <<files, dirExists, cmd, note, userContent, session,
                   createdTs, deleted>>

\* a line other than "!quit" is added to newContent
EditorLine(l) ==
    /\ pc = "editor"
    /\ l # Quit
    /\ BodyLines < MaxBodyLines
    /\ line' = l
    /\ newContent' = newContent \o l \o <<NL>>
    /\ typed' = Append(typed, l)
    /\ out' = <<>>
    /\ UNCHANGED <<files, dirExists, pc, cmd, note, userContent, session,
                   createdTs, deleted>>

\* a saveNote that opens (and truncates) the file and writes nothing
saveNoteWritesNothing(n) ==
    IF dirExists
    THEN /\ files' = WriteFile(FilePath(n.name), <<>>)
         /\ out' = <<Msg("Saved", n.name)>>
    ELSE /\ files' = files
         /\ out' = <<Msg("SaveFailed", n.name)>>

\* saveNote: the content is written when the file opens for writing
saveNote(n) ==
    IF dirExists
    THEN /\ files' = WriteFile(FilePath(n.name), n.content)
         /\ out' = <<Msg("Saved", n.name)>>
    ELSE /\ files' = files
         /\ out' = <<Msg("SaveFailed", n.name)>>

\* "!quit" ends the loop: the content is recombined and saved, openNote
\* returns and its note and locals are gone
EditorQuit ==
    /\ pc = "editor"
    /\ line' = Quit
    /\ LET head == note.name \o headSep \o note.timestamp \o <<NL, NL>>
       IN  saveNote([note EXCEPT !.content = head \o userContent \o newContent])
    /\ pc' = "prompt"
    /\ note' = NoNote
    /\ userContent' = <<>>
    /\ newContent' = <<>>
    /\ UNCHANGED <<dirExists, cmd, session, typed, createdTs, deleted>>

-----------------------------------------------------------------------------
(* The environment *)

\* someone removes savedNotes, and the notes in it, while the program runs
EnvRemoveDir ==
    /\ pc \in {"prompt", "editor"}
    /\ dirExists
    /\ dirExists' = FALSE
    /\ files' = NoFiles
    /\ UNCHANGED <<pc, cmd, line, note, userContent, newContent, session,
                   typed, out, createdTs, deleted>>

-----------------------------------------------------------------------------
(* Specifications *)

Next ==
    \/ \E c \in CmdLines : CmdExit(c)
    \/ \E c \in CmdLines : CmdHelp(c)
    \/ \E c \in CmdLines : CmdCls(c)
    \/ \E c \in CmdLines : CmdList(c)
    \/ \E c \in CmdLines : CmdInvalidFilename(c)
    \/ \E c \in CmdLines : CmdDel(c)
    \/ \E c \in CmdLines : CmdNew(c)
    \/ \E c \in CmdLines : CmdApp(c)
    \/ \E c \in CmdLines : CmdOw(c)
    \/ \E c \in CmdLines : CmdMissingArg(c)
    \/ \E c \in CmdLines : CmdInvalid(c)
    \/ \E l \in EditorLines : EditorLine(l)
    \/ EditorQuit

\* the program alone in its directory
Spec == Init /\ [][Next]_vars

NextEnv == Next \/ EnvRemoveDir

\* the program while the save directory can be removed under it
SpecEnv == Init /\ [][NextEnv]_vars

-----------------------------------------------------------------------------
(* Vocabulary of the properties *)

\* the note file of title T, and whether there is one
FileOf(T) == files[T \o <<".", "c", "p", "p", "n">>]
HasFile(T) == (T \o <<".", "c", "p", "p", "n">>) \in DOMAIN files

\* X1 + newline ... Xn + newline
RECURSIVE TextOf(_)
TextOf(ls) ==
    IF ls = <<>> THEN <<>> ELSE Head(ls) \o <<"\n">> \o TextOf(Tail(ls))

\* the header line `T | ts`
HeaderLine(T, ts) == T \o <<" ", "|", " ">> \o ts

\* the first line of a text: what precedes its first newline
FirstLine(s) ==
    LET nls == {i \in 1..Len(s) : s[i] = "\n"}
    IN  IF nls = {} THEN s
        ELSE SubSeq(s, 1, (CHOOSE i \in nls : \A j \in nls : i <= j) - 1)

\* the number of newline characters of a text
Newlines(s) == Cardinality({i \in 1..Len(s) : s[i] = "\n"})

\* the title of the command line last read at the prompt
T0 == ArgOf[cmd]

\* a step that ends an editor session opened by command s
SessionEnds(s) == pc = "editor" /\ session = s /\ pc' = "prompt"

-----------------------------------------------------------------------------
(* C1 *)
\* C1: `app T`, lines X1..Xn and `!quit` leave T's file equal to its prior
\* content followed by X1 + newline ... Xn + newline, the header line and
\* its timestamp as they were; with n = 0 the file is unchanged.
C1_AppendExtendsFile ==
    [][SessionEnds("app") =>
          /\ HasFile(T0)
          /\ files' = [files EXCEPT ![T0 \o noteExt] = FileOf(T0) \o TextOf(typed)]
          /\ FirstLine(FileOf(T0)') = FirstLine(FileOf(T0))
          /\ (typed = <<>> => files' = files)]_vars

\* an append session that added lines to a note with a body has ended
C1_Witness ==
    /\ pc = "prompt" /\ session = "app" /\ typed # <<>>
    /\ out = <<Msg("Saved", T0)>>
    /\ HasFile(T0)
    /\ Newlines(FileOf(T0)) > 2 + Len(typed)

(* C2 *)
\* C2: `ow T`, lines Y1..Yn and `!quit` leave T's file with its header line
\* as before, a blank line, and the body Y1 + newline ... Yn + newline.
C2_OverwriteReplacesBody ==
    [][SessionEnds("ow") =>
          /\ HasFile(T0)
          /\ files' = [files EXCEPT ![T0 \o noteExt] =
                          FirstLine(FileOf(T0)) \o <<"\n", "\n">> \o TextOf(typed)]
          /\ FirstLine(FileOf(T0)) = HeaderLine(T0, createdTs[T0])]_vars

\* an overwrite session with typed lines has ended
C2_Witness ==
    /\ pc = "prompt" /\ session = "ow" /\ typed # <<>>
    /\ out = <<Msg("Saved", T0)>>
    /\ HasFile(T0)
    /\ Newlines(FileOf(T0)) = 2 + Len(typed)

(* C3 *)
\* C3: `new T` for a valid T without a file, followed at once by `!quit`,
\* produces T's file: the line `T | <creation timestamp>`, a blank line and
\* an empty body.
C3_NewThenQuit ==
    (pc = "prompt" /\ session = "new" /\ typed = <<>>) =>
        /\ HasFile(T0)
        /\ FileOf(T0) = HeaderLine(T0, createdTs[T0]) \o <<"\n", "\n">>
        /\ \E t \in Times : createdTs[T0] = getCurrentTime(t)

\* a note was created and its session ended at once
C3_Witness ==
    /\ pc = "prompt" /\ session = "new" /\ typed = <<>>
    /\ line = Quit
    /\ out = <<Msg("Saved", T0)>>

(* C4 *)
\* C4: `del T` on an existing note removes its file (and no other), and
\* from then on, until a `new T`, T has no file and `app T` / `ow T` fail
\* with the does-not-exist error without opening a session; `del T` on a
\* title without a file reports failure and changes no file.
C4_DeleteThenLoadFails ==
    [][/\ \A T \in deleted' : ~HasFile(T)'
       /\ \A T \in Titles :
            /\ (pc = "prompt" /\ cmd' = WDel \o <<" ">> \o T /\ HasFile(T)) =>
                  /\ DOMAIN files' = DOMAIN files \ {T \o noteExt}
                  /\ \A f \in DOMAIN files' : files'[f] = files[f]
                  /\ T \in deleted'
                  /\ out' = <<Msg("Deleted", T)>>
                  /\ pc' = "prompt"
            /\ (pc = "prompt" /\ cmd' = WDel \o <<" ">> \o T /\ ~HasFile(T)) =>
                  /\ files' = files
                  /\ out' = <<Msg("DeleteFailed", T)>>
                  /\ pc' = "prompt"
            /\ (/\ pc = "prompt" /\ T \in deleted
                /\ cmd' \in {WApp \o <<" ">> \o T, WOw \o <<" ">> \o T}) =>
                  /\ out' = <<Msg("NotFound", T)>>
                  /\ pc' = "prompt" /\ session' = "none"
                  /\ files' = files]_vars

\* `app T` or `ow T` has just failed on a deleted note
C4_Witness ==
    /\ pc = "prompt"
    /\ BranchOf[cmd] \in {"app", "ow"}
    /\ T0 \in deleted
    /\ out = <<Msg("NotFound", T0)>>

(* C5 *)
\* C5: every note file stored under title T begins with the header line
\* `T | ts`, ts the timestamp of T's most recent creation, and a blank line;
\* the body follows.
C5_HeaderInvariant ==
    \A f \in DOMAIN files :
        \E T \in DOMAIN createdTs :
            /\ f = T \o <<".", "c", "p", "p", "n">>
            /\ LET h == HeaderLine(T, createdTs[T]) \o <<"\n", "\n">>
               IN  /\ Len(files[f]) >= Len(h)
                   /\ SubSeq(files[f], 1, Len(h)) = h

\* a note was appended to or overwritten while another note carries
\* another timestamp
C5_Witness ==
    /\ pc = "prompt" /\ session \in {"app", "ow"} /\ typed # <<>>
    /\ HasFile(T0)
    /\ \E T \in DOMAIN createdTs : HasFile(T) /\ createdTs[T] # createdTs[T0]

(* C6 *)
\* C6: `list` reports exactly the titles that have a file, each once and
\* without the extension, and the no-files-found message exactly when the
\* save directory exists and holds no file.
C6_ListReportsTitles ==
    (pc = "prompt" /\ cmd = WList) =>
        LET have == {T \in Titles : HasFile(T)}
        IN  /\ Cardinality(have) = Cardinality(DOMAIN files)
            /\ (out = <<Msg("NoFilesFound", <<>>)>>)
                  <=> (dirExists /\ DOMAIN files = {})
            /\ DOMAIN files # {} =>
                  /\ Len(out) = Cardinality(have)
                  /\ {out[i] : i \in 1..Len(out)} =
                        {Msg("Entry", T) : T \in have}

\* `list` has just reported two notes
C6_Witness ==
    /\ pc = "prompt" /\ cmd = WList
    /\ Len(out) = 2
    /\ Cardinality(DOMAIN files) = 2

(* C7 *)
\* C7: `new T` when T has a file, and `app T` / `ow T` when T has none,
\* print an error, change no file and start no editor session: no further
\* input line is consumed and the prompt reads the next line.
Refused(kind, T) ==
    /\ out' = <<Msg(kind, T)>>
    /\ files' = files
    /\ pc' = "prompt"
    /\ line' = line /\ typed' = <<>> /\ note' = NoNote

C7_FailedPreconditionMutatesNothing ==
    [][\A T \in Titles :
        /\ (pc = "prompt" /\ cmd' = WNew \o <<" ">> \o T /\ HasFile(T))
              => Refused("AlreadyExists", T)
        /\ (/\ pc = "prompt" /\ ~HasFile(T)
            /\ cmd' \in {WApp \o <<" ">> \o T, WOw \o <<" ">> \o T})
              => Refused("NotFound", T)]_vars

\* `new T` has just been refused for a note that exists
C7_Witness ==
    /\ pc = "prompt"
    /\ out = <<Msg("AlreadyExists", T0)>>
    /\ HasFile(T0)

(* C8 *)
\* C8: createNote, loadNote and deleteNote are invoked only with a title
\* that has no reserved character and fewer than 255 characters; a two-word
\* line is refused with the invalid-filename error exactly when its argument
\* has a reserved character or at least 255 characters, and a refused line
\* touches no file.
ReservedChars == {"<", ">", ":", "\"", "/", "\\", "|", "?", "*"}

ValidTitle(t) ==
    /\ \A i \in 1..Len(t) : t[i] \notin ReservedChars
    /\ Len(t) < 255

C8_OnlyValidTitlesDispatched ==
    [][pc = "prompt" =>
        LET arg == ArgOf[cmd']
            refused == (out' = <<Msg("InvalidFilename", arg)>>)
        IN  /\ \A i \in 1..Len(out') :
                  out'[i].kind \in {"Deleted", "DeleteFailed", "AlreadyExists",
                                    "NotFound"}
                     => ValidTitle(out'[i].arg)
            /\ pc' = "editor" => ValidTitle(note'.name)
            /\ WordsOf[cmd'] = 2 => (refused <=> ~ValidTitle(arg))
            /\ refused => /\ files' = files
                          /\ pc' = "prompt"
                          /\ note' = NoNote]_vars

\* a two-word line with a 255-character argument has just been refused
C8_Witness ==
    /\ pc = "prompt"
    /\ cmd = WNew \o <<" ">> \o LongTitle(255)
    /\ out = <<Msg("InvalidFilename", LongTitle(255))>>

(* C9 *)
\* C9: inside an editor session every line up to the first `!quit` is note
\* content and no command (a typed `exit` does not end the program); the
\* session ends when and only when `!quit` is read, the sentinel is not
\* stored, the file is written once, at that point and not before, and only
\* then does the prompt read again.
C9_SessionReadsUntilQuit ==
    [][pc = "editor" =>
        /\ cmd' = cmd
        /\ session' = session
        /\ line' # Quit =>
              /\ pc' = "editor"
              /\ typed' = Append(typed, line')
              /\ files' = files
              /\ out' = <<>>
        /\ line' = Quit =>
              /\ pc' = "prompt"
              /\ typed' = typed
              /\ out' = <<Msg("Saved", note.name)>>
              /\ files' =
                    [f \in DOMAIN files \cup {note.name \o noteExt} |->
                        IF f = note.name \o noteExt
                        THEN HeaderLine(note.name, note.timestamp)
                                \o <<"\n", "\n">> \o userContent \o TextOf(typed)
                        ELSE files[f]]]_vars

\* a session in which `exit` was typed as content has ended on `!quit`
C9_Witness ==
    /\ pc = "prompt" /\ session # "none" /\ line = Quit
    /\ \E i \in 1..Len(typed) : typed[i] = WExit
    /\ out = <<Msg("Saved", T0)>>

(* C10 *)
\* C10: `list` executed while the save directory does not exist reports
\* the save-directory-missing message and returns to the prompt; the
\* process ends on the `exit` command only.
C10_ListWithoutDirectoryRecovers ==
    [][/\ (pc = "prompt" /\ ~dirExists /\ cmd' = WList) =>
              /\ out' = <<Msg("DirectoryMissing", <<>>)>>
              /\ pc' = "prompt"
       /\ pc' \notin {"prompt", "editor"} =>
              (pc' = "exited" /\ cmd' = WExit)]_vars

====
